---- MODULE Spec2Model ----
(***************************************************************************)
(* MoonLight interview flow: one interview session, its message log and    *)
(* its evaluation in the database, and the HTTP handlers that read and     *)
(* write them.  Every handler is cut at its awaits, so that handlers      *)
(* interleave the way asyncio lets them: a step is one read or one commit  *)
(* of the database, together with the work before it that touches only    *)
(* the handler's own data (the checks, the LLM call, the decision).  A     *)
(* handler works on the ORM object it loaded (its local copy of the row,   *)
(* never refreshed by a commit because the session factory sets            *)
(* expire_on_commit=False) and writes back the columns it changed.         *)
(*                                                                         *)
(* Text (an AI reply, a cue phrase) is a sequence of Unicode code points.  *)
(***************************************************************************)
EXTENDS Integers, Sequences, FiniteSets, TLC

\* ---------------------------------------------------------------- bounds
NumRequests == 2       \* handlers in flight at the same time
MaxMessages == 2       \* rows of the message log
MaxChunks == 2         \* chunks of one LLM stream
MaxUpdates == 1        \* PATCH requests admitted in one run

Requests == 1..NumRequests

\* ------------------------------------------------------- InterviewConfig
INTERVIEW_ROUNDS == <<"opening", "self_intro", "qa", "reverse_qa", "closing">>

Rounds == {INTERVIEW_ROUNDS[i] : i \in 1..Len(INTERVIEW_ROUNDS)}

\* rounds.index(r), 1-based
RoundIndex(r) == CHOOSE i \in 1..Len(INTERVIEW_ROUNDS) : INTERVIEW_ROUNDS[i] = r

Statuses == {"ongoing", "completed", "aborted"}

\* -------------------------------------------------- InterviewFlowService
\* (min, max) replies of the candidate per round
ROUND_MESSAGE_LIMITS ==
  [opening    |-> <<0, 0>>,
   self_intro |-> <<1, 3>>,
   qa         |-> <<5, 10>>,
   reverse_qa |-> <<0, 5>>,
   closing    |-> <<0, 0>>]

\* ROUND_TRANSITION_MARKERS with the [NEXT:...] tags only
ROUND_TRANSITION_MARKERS_tags ==
  [opening |-> <<
     <<91, 78, 69, 88, 84, 58, 115, 101, 108, 102, 95, 105, 110, 116, 114, 111, 93>> >>,
   self_intro |-> <<
     <<91, 78, 69, 88, 84, 58, 113, 97, 93>> >>,
   qa |-> <<
     <<91, 78, 69, 88, 84, 58, 114, 101, 118, 101, 114, 115, 101, 95, 113, 97, 93>> >>,
   reverse_qa |-> <<
     <<91, 78, 69, 88, 84, 58, 99, 108, 111, 115, 105, 110, 103, 93>> >>,
   closing |-> << >>]

ROUND_TRANSITION_MARKERS ==
  [opening |-> <<
     \* [NEXT:self_intro]
     <<91, 78, 69, 88, 84, 58, 115, 101, 108, 102, 95, 105, 110, 116, 114, 111, 93>>,
     \* 请开始自我介绍
     <<35831, 24320, 22987, 33258, 25105, 20171, 32461>>,
     \* 请开始你的自我介绍
     <<35831, 24320, 22987, 20320, 30340, 33258, 25105, 20171, 32461>>,
     \* 请先介绍一下
     <<35831, 20808, 20171, 32461, 19968, 19979>>,
     \* 请先介绍
     <<35831, 20808, 20171, 32461>> >>,
   self_intro |-> <<
     \* [NEXT:qa]
     <<91, 78, 69, 88, 84, 58, 113, 97, 93>>,
     \* 接下来进入技术问答
     <<25509, 19979, 26469, 36827, 20837, 25216, 26415, 38382, 31572>>,
     \* 让我们开始技术问题
     <<35753, 25105, 20204, 24320, 22987, 25216, 26415, 38382, 39064>>,
     \* 进入技术问答
     <<36827, 20837, 25216, 26415, 38382, 31572>>,
     \* 开始技术问题
     <<24320, 22987, 25216, 26415, 38382, 39064>> >>,
   qa |-> <<
     \* [NEXT:reverse_qa]
     <<91, 78, 69, 88, 84, 58, 114, 101, 118, 101, 114, 115, 101, 95, 113, 97, 93>>,
     \* 你有什么问题要问我吗
     <<20320, 26377, 20160, 20040, 38382, 39064, 35201, 38382, 25105, 21527>>,
     \* 你有什么问题想问
     <<20320, 26377, 20160, 20040, 38382, 39064, 24819, 38382>>,
     \* 反问环节
     <<21453, 38382, 29615, 33410>>,
     \* 你有什么想了解
     <<20320, 26377, 20160, 20040, 24819, 20102, 35299>> >>,
   reverse_qa |-> <<
     \* [NEXT:closing]
     <<91, 78, 69, 88, 84, 58, 99, 108, 111, 115, 105, 110, 103, 93>>,
     \* 面试到此结束
     <<38754, 35797, 21040, 27492, 32467, 26463>>,
     \* 今天的面试就到这里
     <<20170, 22825, 30340, 38754, 35797, 23601, 21040, 36825, 37324>>,
     \* 面试结束
     <<38754, 35797, 32467, 26463>>,
     \* 感谢你的参与
     <<24863, 35874, 20320, 30340, 21442, 19982>> >>,
   closing |-> << >>]

\* Python's `marker in text`: text has marker as a contiguous substring
Contains(marker, text) ==
  \E i \in 0..(Len(text) - Len(marker)) :
    SubSeq(text, i + 1, i + Len(marker)) = marker

\* sum(1 for msg in messages if msg.role == "user" and msg.round == round)
UserMessageCount(msgs, round) ==
  Cardinality({i \in 1..Len(msgs) : msgs[i].role = "user" /\ msgs[i].round = round})

\* should_transition_to_next_round written wrongly, in one of four ways:
\*   "late"     user_message_count > max_messages: the cap fires one reply late
\*   "min_gate" a marker counts only once user_message_count >= min_messages
\*   "at_min"   user_message_count >= min_messages forces the transition
\*   "any_cue"  no check of the last round, and the markers of every round count
\*   "no_cap"   the count of user replies is never compared with max_messages
should_transition_variant(current_round, msgs, ai_response, variant) ==
  IF current_round \notin Rounds
    THEN <<FALSE, current_round>>
  ELSE IF variant # "any_cue" /\ RoundIndex(current_round) >= Len(INTERVIEW_ROUNDS)
    THEN <<FALSE, current_round>>
  ELSE
    LET next_round ==
          IF RoundIndex(current_round) < Len(INTERVIEW_ROUNDS)
            THEN INTERVIEW_ROUNDS[RoundIndex(current_round) + 1] ELSE current_round
        markers ==
          IF variant = "any_cue"
            THEN ROUND_TRANSITION_MARKERS["opening"] \o ROUND_TRANSITION_MARKERS["self_intro"]
                 \o ROUND_TRANSITION_MARKERS["qa"] \o ROUND_TRANSITION_MARKERS["reverse_qa"]
            ELSE ROUND_TRANSITION_MARKERS[current_round]
        min_messages == ROUND_MESSAGE_LIMITS[current_round][1]
        max_messages == ROUND_MESSAGE_LIMITS[current_round][2]
        count == UserMessageCount(msgs, current_round)
    IN  IF /\ Len(ai_response) > 0
           /\ \E k \in 1..Len(markers) : Contains(markers[k], ai_response)
           /\ variant = "min_gate" => count >= min_messages
          THEN <<TRUE, next_round>>
        ELSE IF /\ variant # "no_cap"
                /\ IF variant = "late" THEN count > max_messages ELSE count >= max_messages
                /\ max_messages > 0
          THEN <<TRUE, next_round>>
        ELSE IF variant = "at_min" /\ min_messages > 0 /\ count >= min_messages
          THEN <<TRUE, next_round>>
        ELSE <<FALSE, current_round>>

should_transition_late(current_round, msgs, ai_response) ==
  should_transition_variant(current_round, msgs, ai_response, "late")

should_transition_no_cap(current_round, msgs, ai_response) ==
  should_transition_variant(current_round, msgs, ai_response, "no_cap")

should_transition_min_gate(current_round, msgs, ai_response) ==
  should_transition_variant(current_round, msgs, ai_response, "min_gate")

should_transition_at_min(current_round, msgs, ai_response) ==
  should_transition_variant(current_round, msgs, ai_response, "at_min")

should_transition_any_cue(current_round, msgs, ai_response) ==
  should_transition_variant(current_round, msgs, ai_response, "any_cue")

\* should_transition_to_next_round(session, messages, ai_response):
\* <<should_transition, next_round>>.  The `rounds.index` ValueError branch
\* returns (False, current_round) like the last-round branch.
should_transition_to_next_round(current_round, msgs, ai_response) ==
  IF current_round \notin Rounds
    THEN <<FALSE, current_round>>
  ELSE IF RoundIndex(current_round) >= Len(INTERVIEW_ROUNDS)
    THEN <<FALSE, current_round>>
  ELSE
    LET next_round == INTERVIEW_ROUNDS[RoundIndex(current_round) + 1]
        markers == ROUND_TRANSITION_MARKERS[current_round]
        max_messages == ROUND_MESSAGE_LIMITS[current_round][2]
    IN  IF /\ Len(ai_response) > 0
           /\ \E k \in 1..Len(markers) : Contains(markers[k], ai_response)
          THEN <<TRUE, next_round>>
        ELSE IF /\ UserMessageCount(msgs, current_round) >= max_messages
                /\ max_messages > 0
          THEN <<TRUE, next_round>>
        ELSE <<FALSE, current_round>>

\* NextRoundOf taking rounds[current_index + 2]: one round is skipped
NextRoundOfSkipping(current_round) ==
  IF RoundIndex(current_round) + 2 <= Len(INTERVIEW_ROUNDS)
    THEN INTERVIEW_ROUNDS[RoundIndex(current_round) + 2]
    ELSE INTERVIEW_ROUNDS[Len(INTERVIEW_ROUNDS)]

\* transition_to_next_round: the round the handler writes, computed from the
\* ORM object it holds; the round itself when it is already the last one
NextRoundOf(current_round) ==
  IF RoundIndex(current_round) < Len(INTERVIEW_ROUNDS)
    THEN INTERVIEW_ROUNDS[RoundIndex(current_round) + 1]
    ELSE current_round

\* ------------------------------------------------------- the LLM's output
\* 好的 (no cue)
TextPlain == <<22909, 30340>>
\* 请开始你的 + 自我介绍。: the opening instruction's cue sentence, in two chunks
TextCueHead == <<35831, 24320, 22987, 20320, 30340>>
TextCueTail == <<33258, 25105, 20171, 32461, 12290>>
\* the cue sentences the round instructions tell the AI to say
TextOpeningCue == TextCueHead \o TextCueTail
\* 接下来我们进入技术问答环节。
TextSelfIntroCue ==
  <<25509, 19979, 26469, 25105, 20204, 36827, 20837, 25216, 26415, 38382, 31572, 29615, 33410, 12290>>
\* 你有什么问题要问我吗？
TextQaCue ==
  <<20320, 26377, 20160, 20040, 38382, 39064, 35201, 38382, 25105, 21527, 65311>>
\* 今天的面试就到这里，感谢你的参与。
TextReverseQaCue ==
  <<20170, 22825, 30340, 38754, 35797, 23601, 21040, 36825, 37324, 65292,
    24863, 35874, 20320, 30340, 21442, 19982, 12290>>

\* get_round_instruction: the sentence the instruction of the round tells the
\* AI to say (the instruction of closing names none)
RoundInstructionCue ==
  [opening |-> TextOpeningCue, self_intro |-> TextSelfIntroCue,
   qa |-> TextQaCue, reverse_qa |-> TextReverseQaCue]

\* what chat_complete may return: nothing, a reply without cue, a cue sentence
AIReplies ==
  {<< >>, TextPlain, TextOpeningCue, TextSelfIntroCue, TextQaCue, TextReverseQaCue}

\* what chat_stream may yield: the halves of the opening cue, the self_intro cue
Chunks == {TextCueHead, TextCueTail, TextSelfIntroCue}

\* ------------------------------------------------------------------ state
VARIABLES
  session,     \* the interview_sessions row: exists, status, current_round, end_time (set or not)
  resume,      \* the linked resumes row exists
  messages,    \* the interview_messages rows of the session, by id
  evaluation,  \* the interview_evaluations row of the session exists
  req,         \* per request slot: the handler it runs, where it is, what it holds
  updates,     \* PATCH requests admitted so far
  limit,       \* message rows the run may store
  call,        \* a call of a service function looked at on its own: its arguments, its result
  ai_configs,  \* the ai_configs rows of the user, by id
  sessions,    \* the interview_sessions rows created by create_interview, by id
  clients,     \* AIClientFactory._instances: cache key -> the api_key of the client
  llm          \* the last LLM call of a turn: the session, the values that went out

vars == <<session, resume, messages, evaluation, req, updates, limit, call,
          ai_configs, sessions, clients, llm>>

\* what the handlers of one session leave alone, the client cache apart
beside == <<limit, call, ai_configs, sessions, llm>>

\* what the handlers that make no LLM call leave alone
aside == <<beside, clients>>

\* api_key[:8] in AIClientFactory.get_client
KeyPrefixLen == 8

UrlOne == <<"https://", "one">>
UrlTwo == <<"https://", "two">>

KeyProjA == <<"s", "k", "-", "p", "r", "o", "j", "-", "a">>
KeyProjB == <<"s", "k", "-", "p", "r", "o", "j", "-", "b">>
KeyLive == <<"s", "k", "-", "l", "i", "v", "e", "-", "c">>

\* the snapshot fields of an ai_configs row that the turn handlers read
\* (temperature in tenths)
ConfigData ==
  {[base_url |-> UrlOne, api_key |-> KeyProjA, chat_model |-> "gpt-4",
    temperature |-> 7, max_tokens |-> 4096],
   [base_url |-> UrlTwo, api_key |-> KeyLive, chat_model |-> "other",
    temperature |-> 3, max_tokens |-> 1024]}

\* model_config of the session whose log is followed
SessionModelConfig ==
  [base_url |-> UrlOne, api_key |-> KeyProjA, chat_model |-> "gpt-4",
   temperature |-> 7, max_tokens |-> 4096]

\* s[:n]
Take(s, n) == SubSeq(s, 1, IF Len(s) < n THEN Len(s) ELSE n)

\* f"{base_url}:{api_key[:8]}"
CacheKey(base_url, api_key) == base_url \o <<":">> \o Take(api_key, KeyPrefixLen)

RECURSIVE RStripSlash(_)
\* base_url.rstrip("/") in AIClient.__init__
RStripSlash(s) ==
  IF s # << >> /\ s[Len(s)] = "/" THEN RStripSlash(SubSeq(s, 1, Len(s) - 1)) ELSE s

\* AIClientFactory.get_client: _instances after the call; a new AIClient is
\* stored under the key only when the key is not in _instances
get_client(instances, base_url, api_key) ==
  IF \E c \in instances : c.key = CacheKey(base_url, api_key)
    THEN instances
    ELSE instances \cup {[key |-> CacheKey(base_url, api_key),
                          base_url |-> RStripSlash(base_url), api_key |-> api_key]}

\* the AIClient that get_client returns
ClientOf(instances, base_url, api_key) ==
  CHOOSE c \in get_client(instances, base_url, api_key) : c.key = CacheKey(base_url, api_key)

\* no LLM call of a turn yet
NoLlm ==
  [session |-> 0, base_url |-> << >>, api_key |-> << >>, chat_model |-> "",
   temperature |-> 0, max_tokens |-> 0]

\* no call of should_transition_to_next_round is looked at
NoCall ==
  [current_round |-> "none", msgs |-> << >>, ai_response |-> << >>, result |-> << >>,
   progress |-> << >>, returned |-> << >>]

NoLocal == [status |-> "ongoing", current_round |-> "opening", end_time |-> FALSE]

\* the ORM object a handler holds: the columns as they were when it loaded the
\* row; `reads` are the columns the handler looks at again, the others are left out
LocalCopy(row, reads) ==
  [status |-> IF "status" \in reads THEN row.status ELSE NoLocal.status,
   current_round |-> IF "current_round" \in reads THEN row.current_round
                                                  ELSE NoLocal.current_round,
   end_time |-> IF "end_time" \in reads THEN row.end_time ELSE NoLocal.end_time]

\* the ORM object of a handler that runs with nothing in between: the row itself
Loaded(row) == LocalCopy(row, {"status", "current_round", "end_time"})

\* a free request slot
Idle ==
  [kind |-> "none", pc |-> "idle", sess |-> NoLocal, msgs |-> << >>,
   transition |-> FALSE, fresh_round |-> "opening", events |-> << >>,
   outcome |-> "none", cause |-> "none", appended |-> << >>, alone |-> TRUE]

\* InterviewSessionService.create: status="ongoing", current_round="opening",
\* no end_time, no message, no evaluation
Init ==
  /\ session = [exists |-> TRUE, status |-> "ongoing", current_round |-> "opening",
                end_time |-> FALSE]
  /\ resume = TRUE
  /\ messages = << >>
  /\ evaluation = FALSE
  /\ req = [r \in Requests |-> Idle]
  /\ updates = 0
  /\ limit = MaxMessages
  /\ call = NoCall
  /\ ai_configs = << >>
  /\ sessions = << >>
  /\ clients = {}
  /\ llm = NoLlm

\* ---------------------------------------------------------- bookkeeping
\* Request r moves to `rec`; every other request in flight has now seen a
\* concurrent step (alone records that a handler ran with nothing in between).
Disturbed(x) == IF x.pc = "idle" THEN x ELSE [x EXCEPT !.alone = FALSE]

Move(r, rec) == req' = [q \in Requests |-> IF q = r THEN rec ELSE Disturbed(req[q])]

\* the handler returns: an HTTP status, or the end of the event stream
Finish(x, outcome, cause) ==
  [x EXCEPT !.pc = "done", !.outcome = outcome, !.cause = cause,
            !.msgs = << >>, !.transition = FALSE, !.fresh_round = "opening"]

IsTurn(x) == x.kind \in {"send", "stream"}

RECURSIVE Reserved(_)
\* message rows the turns in flight may still insert
Reserved(S) ==
  IF S = {} THEN 0
  ELSE LET q == CHOOSE q \in S : TRUE
       IN  (IF IsTurn(req[q]) /\ req[q].pc # "done" THEN 2 - Len(req[q].appended) ELSE 0)
           + Reserved(S \ {q})

\* the bound of the log leaves room for one more turn
RoomForTurn == Len(messages) + Reserved(Requests) + 2 <= limit

AllIdle == \A q \in Requests : req[q].pc = "idle"

\* A finished request holds nothing of the program's state: its response is
\* looked at before the program takes its next step.
Running == \A q \in Requests : req[q].pc # "done"

\* request r is in flight and stands at pc
At(r, pc) == Running /\ req[r].pc = pc

\* a request is taken by the first free slot (the slots are interchangeable)
Free(r) == At(r, "idle") /\ \A q \in Requests : q < r => req[q].pc # "idle"

\* a request that starts now, and whether any other is in flight
Start(kind) == [Idle EXCEPT !.kind = kind, !.alone = AllIdle]

\* ------------------------------------------------ InterviewSessionService
\* InterviewSessionService.update: setattr for every field the request sets,
\* then COMMIT.  The UPDATE carries the columns whose value differs from the
\* one the ORM object was loaded with; upd marks a field not sent as "unset",
\* end_time as "unset", "null" or "set" (a datetime).
InterviewSessionService_update(row, local, upd) ==
  [row EXCEPT
     !.status = IF upd.status # "unset" /\ upd.status # local.status
                  THEN upd.status ELSE @,
     !.current_round = IF upd.current_round # "unset" /\ upd.current_round # local.current_round
                         THEN upd.current_round ELSE @,
     !.end_time = IF upd.end_time = "set" THEN TRUE
                  ELSE IF upd.end_time = "null" /\ local.end_time THEN FALSE
                  ELSE @]

\* InterviewSessionService.complete / abort: status and end_time, then COMMIT
InterviewSessionService_close(row, local, status) ==
  InterviewSessionService_update(row, local,
    [status |-> status, current_round |-> "unset", end_time |-> "set"])

\* transition_to_next_round that goes on from the last round to the first
transition_to_next_round_around(row, local) ==
  InterviewSessionService_update(row, local,
    [status |-> "unset",
     current_round |-> INTERVIEW_ROUNDS[(RoundIndex(local.current_round) % Len(INTERVIEW_ROUNDS)) + 1],
     end_time |-> "unset"])

\* transition_to_next_round(db, session): InterviewSessionUpdate(current_round=next)
\* when the held round is not the last one, nothing otherwise
transition_to_next_round(row, local) ==
  IF RoundIndex(local.current_round) < Len(INTERVIEW_ROUNDS)
    THEN InterviewSessionService_update(row, local,
           [status |-> "unset", current_round |-> NextRoundOf(local.current_round),
            end_time |-> "unset"])
    ELSE row

\* the interview_messages row of an AI reply: meta_info records the round a
\* transition was decided to
AiMessage(round, should_transition, next_round) ==
  [role |-> "ai", round |-> round,
   triggered_transition |-> IF should_transition THEN next_round ELSE "none"]

\* --------------------------------- send_message / send_message_stream
\* get_by_id and the three checks that open both turn handlers
turn_validate(r) ==
  /\ Free(r)
  /\ \E kind \in {"send", "stream"}, caller \in {"owner", "other"} :
       \/ /\ ~session.exists
          /\ Move(r, Finish(Start(kind), "NotFound", "session"))
       \/ /\ session.exists /\ caller # "owner"
          /\ Move(r, Finish(Start(kind), "Forbidden", "owner"))
       \/ /\ session.exists /\ caller = "owner" /\ session.status # "ongoing"
          /\ Move(r, Finish(Start(kind), "InvalidState", "status"))
       \/ /\ session.exists /\ caller = "owner" /\ session.status = "ongoing"
          /\ RoomForTurn
          /\ Move(r, [Start(kind) EXCEPT !.pc = "user_message",
                                         !.sess = LocalCopy(session, {"current_round"})])
  /\ UNCHANGED <<session, resume, messages, evaluation, updates, aside>>

\* turn_user_message with the row added to the unit of work but not committed:
\* nothing of it is in the table when a later step fails
turn_user_message_unsaved(r) ==
  /\ At(r, "user_message")
  /\ Move(r, [req[r] EXCEPT !.pc = "load"])
  /\ UNCHANGED <<session, resume, messages, evaluation, updates, aside>>

\* InterviewMessageService.create(role="user", round=session.current_round):
\* INSERT and COMMIT; the foreign key rejects a row for a session that is gone
turn_user_message(r) ==
  /\ At(r, "user_message")
  /\ \/ /\ session.exists
        /\ messages' = Append(messages,
             [role |-> "user", round |-> req[r].sess.current_round, triggered_transition |-> "none"])
        /\ Move(r, [req[r] EXCEPT !.pc = "load", !.appended = Append(@, "user")])
     \/ /\ ~session.exists
        /\ messages' = messages
        /\ Move(r, Finish(req[r], "error", "user_message"))
  /\ UNCHANGED <<session, resume, evaluation, updates, aside>>

\* InterviewMessageService.list_by_session, then select(Resume): 404 when the
\* linked resume is gone.  Else the prompt is built; send_message goes on to
\* the LLM, send_message_stream returns the generator.
turn_load(r) ==
  /\ At(r, "load")
  /\ \/ /\ ~resume
        /\ Move(r, Finish(req[r], "NotFound", "resume"))
     \/ /\ resume
        /\ Move(r, [req[r] EXCEPT
                      !.pc = IF req[r].kind = "send" THEN "chat_complete" ELSE "generate_stream",
                      !.msgs = [i \in 1..Len(messages) |->
                                  [role |-> messages[i].role, round |-> messages[i].round]]])
  /\ UNCHANGED <<session, resume, messages, evaluation, updates, aside>>

\* ------------------------------------------------------- send_message
\* except Exception: the error is logged and raised as a 500
AiResponseFailed(x, cause) == Finish(x, "error", cause)

\* The try block up to the AI message: AIClientFactory.get_client, chat_complete,
\* the decision on the held session and the listed messages, and
\* InterviewMessageService.create(role="ai", round=session.current_round, meta_info).
\* Any exception becomes a 500.
send_chat_complete(r) ==
  /\ At(r, "chat_complete")
  /\ \/ /\ messages' = messages
        /\ Move(r, AiResponseFailed(req[r], "client"))
     \/ /\ messages' = messages
        /\ Move(r, AiResponseFailed(req[r], "provider"))
     \/ \E ai_response \in AIReplies :
          LET decision == should_transition_to_next_round(
                            req[r].sess.current_round, req[r].msgs, ai_response)
              inserted == [req[r] EXCEPT !.appended = Append(@, "ai"), !.msgs = << >>]
          IN
          \/ /\ session.exists
             /\ messages' = Append(messages,
                  AiMessage(req[r].sess.current_round, decision[1], decision[2]))
             /\ \/ /\ decision[1]
                   /\ Move(r, [inserted EXCEPT !.pc = "transition"])
                \/ /\ ~decision[1]
                   /\ Move(r, Finish(inserted, "ok", "none"))
                \* the row is committed and db.refresh(message) raises
                \/ Move(r, AiResponseFailed(inserted, "persistence"))
          \* the COMMIT fails, or the session row is gone (foreign key)
          \/ /\ messages' = messages
             /\ Move(r, AiResponseFailed(req[r], "persistence"))
  /\ clients' = IF req'[r].cause = "client"
                  THEN clients
                  ELSE get_client(clients, SessionModelConfig.base_url,
                                  SessionModelConfig.api_key)
  /\ UNCHANGED <<session, resume, evaluation, updates, beside>>

\* send_transition with the session row read again before the transition
send_transition_fresh(r) ==
  /\ At(r, "transition")
  /\ \/ /\ session.exists
        /\ session' = transition_to_next_round(session, Loaded(session))
        /\ Move(r, Finish(req[r], "ok", "none"))
     \/ /\ session' = session
        /\ Move(r, AiResponseFailed(req[r], "persistence"))
  /\ UNCHANGED <<resume, messages, evaluation, updates, aside>>

\* transition_to_next_round(db, session) on the session loaded at the start
send_transition(r) ==
  /\ At(r, "transition")
  /\ \/ /\ session.exists
        /\ session' = transition_to_next_round(session, req[r].sess)
        /\ \/ Move(r, Finish(req[r], "ok", "none"))
           \* the row is committed and db.refresh(session) raises
           \/ Move(r, AiResponseFailed(req[r], "persistence"))
     \* the COMMIT fails, or the session row is gone (no row matched)
     \/ /\ session' = session
        /\ Move(r, AiResponseFailed(req[r], "persistence"))
  /\ UNCHANGED <<resume, messages, evaluation, updates, aside>>

\* ------------------------------- send_message_stream.generate_stream
\* what one stream may yield before it ends
ChunkSeqs == UNION {[1..n -> Chunks] : n \in 0..MaxChunks}

RECURSIVE Joined(_)
\* full_response += chunk, over the whole stream
Joined(chunks) ==
  IF chunks = << >> THEN << >> ELSE Joined(SubSeq(chunks, 1, Len(chunks) - 1)) \o chunks[Len(chunks)]

\* the events of a stream so far: start, then one chunk event per chunk
Streamed(n) == <<"start">> \o [i \in 1..n |-> "chunk"]

\* yield of the terminal event: the generator ends
StreamEnd(x) == Finish([x EXCEPT !.events = Append(@, "end")], "ok", "none")

\* either except block: the error is logged, an error event is yielded
StreamError(x, cause) == Finish([x EXCEPT !.events = Append(@, "error")], "error", cause)

\* SessionNotFound with the else branch left out: the generator just returns
SessionNotFoundSilent(x) == Finish(x, "error", "vanished")

\* the else branch of `if current_session`: an error event "Session not found"
SessionNotFound(x) == Finish([x EXCEPT !.events = Append(@, "error")], "error", "vanished")

\* generate_stream that stores what was received when chat_stream fails after
\* a chunk
generate_stream_partial(r) ==
  /\ At(r, "generate_stream")
  /\ \E n \in 1..MaxChunks :
       /\ messages' = Append(messages,
            AiMessage(req[r].sess.current_round, FALSE, req[r].sess.current_round))
       /\ Move(r, StreamError([req[r] EXCEPT !.events = Streamed(n),
                                             !.appended = Append(@, "ai")], "provider"))
  /\ clients' = get_client(clients, SessionModelConfig.base_url, SessionModelConfig.api_key)
  /\ UNCHANGED <<session, resume, evaluation, updates, beside>>

\* The generator up to the re-read of the session: get_client (inside the try,
\* before the first yield), the start event, the chunks buffered and forwarded,
\* then AsyncSessionLocal() and the select of the session by id, and the
\* decision on the row just read, the messages listed before the stream and
\* the buffered response.
generate_stream(r) ==
  /\ At(r, "generate_stream")
  /\ \/ Move(r, StreamError(req[r], "client"))
     \* chat_stream raises AIClientError, before or after any chunk
     \/ \E n \in 0..MaxChunks :
          Move(r, StreamError([req[r] EXCEPT !.events = Streamed(n)], "provider"))
     \/ \E chunks \in ChunkSeqs :
          LET full_response == Joined(chunks)
              streamed == [req[r] EXCEPT !.events = Streamed(Len(chunks))]
          IN
          \/ /\ session.exists
             /\ Move(r, [streamed EXCEPT
                           !.pc = "stream_ai_message",
                           !.msgs = << >>,
                           !.fresh_round = session.current_round,
                           !.transition = should_transition_to_next_round(
                                            session.current_round, req[r].msgs, full_response)[1]])
          \/ /\ ~session.exists
             /\ Move(r, SessionNotFound(streamed))
          \* the select raises
          \/ Move(r, StreamError(streamed, "persistence"))
  /\ clients' = IF req'[r].cause = "client"
                  THEN clients
                  ELSE get_client(clients, SessionModelConfig.base_url,
                                  SessionModelConfig.api_key)
  /\ UNCHANGED <<session, resume, messages, evaluation, updates, beside>>

\* InterviewMessageService.create(db_session, role="ai", round=current_round, meta_info),
\* current_round being the round captured before the stream; without a
\* transition the final db_session.commit() and the end event follow
generate_stream_ai_message(r) ==
  /\ At(r, "stream_ai_message")
  /\ LET inserted == [req[r] EXCEPT !.appended = Append(@, "ai")]
     IN
     \/ /\ session.exists
        /\ messages' = Append(messages,
             AiMessage(req[r].sess.current_round, req[r].transition,
                       NextRoundOf(req[r].fresh_round)))
        /\ \/ /\ req[r].transition
              /\ Move(r, [inserted EXCEPT !.pc = "stream_transition"])
           \/ /\ ~req[r].transition
              /\ Move(r, StreamEnd(inserted))
           \* the row is committed, and db.refresh(message) or the final commit raises
           \/ Move(r, StreamError(inserted, "persistence"))
     \* the COMMIT fails, or the session row is gone (foreign key)
     \/ /\ messages' = messages
        /\ Move(r, StreamError(req[r], "persistence"))
  /\ UNCHANGED <<session, resume, evaluation, updates, aside>>

\* transition_to_next_round(db_session, current_session) on the row re-read
\* after the stream, then the final db_session.commit() and the end event
generate_stream_transition(r) ==
  /\ At(r, "stream_transition")
  /\ \/ /\ session.exists
        /\ session' = transition_to_next_round(session,
                        [req[r].sess EXCEPT !.current_round = req[r].fresh_round])
        /\ \/ Move(r, StreamEnd(req[r]))
           \* the row is committed, and db.refresh(session) or the final commit raises
           \/ Move(r, StreamError(req[r], "persistence"))
     \* the COMMIT fails, or the session row is gone (no row matched)
     \/ /\ session' = session
        /\ Move(r, StreamError(req[r], "persistence"))
  /\ UNCHANGED <<resume, messages, evaluation, updates, aside>>

\* ---------------------------------------------------------- next_round
\* get_by_id, the three checks, and the check that the round is not the last
next_round_validate(r) ==
  /\ Free(r)
  /\ \E caller \in {"owner", "other"} :
       \/ /\ ~session.exists
          /\ Move(r, Finish(Start("next_round"), "NotFound", "session"))
       \/ /\ session.exists /\ caller # "owner"
          /\ Move(r, Finish(Start("next_round"), "Forbidden", "owner"))
       \/ /\ session.exists /\ caller = "owner" /\ session.status # "ongoing"
          /\ Move(r, Finish(Start("next_round"), "InvalidState", "status"))
       \/ /\ session.exists /\ caller = "owner" /\ session.status = "ongoing"
          /\ RoundIndex(session.current_round) >= Len(INTERVIEW_ROUNDS)
          /\ Move(r, Finish(Start("next_round"), "BadRequest", "last_round"))
       \/ /\ session.exists /\ caller = "owner" /\ session.status = "ongoing"
          /\ RoundIndex(session.current_round) < Len(INTERVIEW_ROUNDS)
          /\ Move(r, [Start("next_round") EXCEPT
                        !.pc = "next_round", !.sess = LocalCopy(session, {"current_round"})])
  /\ UNCHANGED <<session, resume, messages, evaluation, updates, aside>>

\* transition_to_next_round(db, session)
next_round_transition(r) ==
  /\ At(r, "next_round")
  /\ \/ /\ session.exists
        /\ session' = transition_to_next_round(session, req[r].sess)
        /\ Move(r, Finish(req[r], "ok", "none"))
     \/ /\ ~session.exists
        /\ session' = session
        /\ Move(r, Finish(req[r], "error", "persistence"))
  /\ UNCHANGED <<resume, messages, evaluation, updates, aside>>

\* ----------------------------------------------------- update_interview
\* what a PATCH body may carry (InterviewSessionUpdate)
UpdatePayloads ==
  [status : {"unset"} \cup Statuses,
   current_round : {"unset"} \cup Rounds,
   end_time : {"unset", "null", "set"}]

\* get_by_id and the two checks: existence and ownership
update_interview_validate(r) ==
  /\ Free(r)
  /\ \E caller \in {"owner", "other"} :
       \/ /\ ~session.exists
          /\ updates' = updates
          /\ Move(r, Finish(Start("update"), "NotFound", "session"))
       \/ /\ session.exists /\ caller # "owner"
          /\ updates' = updates
          /\ Move(r, Finish(Start("update"), "Forbidden", "owner"))
       \/ /\ session.exists /\ caller = "owner"
          /\ updates < MaxUpdates
          /\ updates' = updates + 1
          /\ Move(r, [Start("update") EXCEPT
                        !.pc = "update",
                        !.sess = LocalCopy(session, {"status", "current_round", "end_time"})])
  /\ UNCHANGED <<session, resume, messages, evaluation, aside>>

\* InterviewSessionService.update(db, session, update_data)
update_interview_write(r) ==
  /\ At(r, "update")
  /\ \/ /\ session.exists
        /\ \E update_data \in UpdatePayloads :
             session' = InterviewSessionService_update(session, req[r].sess, update_data)
        /\ Move(r, Finish(req[r], "ok", "none"))
     \/ /\ ~session.exists
        /\ session' = session
        /\ Move(r, Finish(req[r], "error", "persistence"))
  /\ UNCHANGED <<resume, messages, evaluation, updates, aside>>

\* --------------------------------- complete_interview / abort_interview
\* get_by_id and the three checks of both handlers
close_validate(r) ==
  /\ Free(r)
  /\ \E kind \in {"complete", "abort"}, caller \in {"owner", "other"} :
       \/ /\ ~session.exists
          /\ Move(r, Finish(Start(kind), "NotFound", "session"))
       \/ /\ session.exists /\ caller # "owner"
          /\ Move(r, Finish(Start(kind), "Forbidden", "owner"))
       \/ /\ session.exists /\ caller = "owner" /\ session.status # "ongoing"
          /\ Move(r, Finish(Start(kind), "InvalidState", "status"))
       \/ /\ session.exists /\ caller = "owner" /\ session.status = "ongoing"
          /\ Move(r, [Start(kind) EXCEPT !.pc = "close",
                                         !.sess = LocalCopy(session, {"status"})])
  /\ UNCHANGED <<session, resume, messages, evaluation, updates, aside>>

\* InterviewSessionService.complete(db, session) / abort(db, session)
close_write(r) ==
  /\ At(r, "close")
  /\ \/ /\ session.exists
        /\ session' = InterviewSessionService_close(session, req[r].sess,
                        IF req[r].kind = "complete" THEN "completed" ELSE "aborted")
        /\ Move(r, Finish(req[r], "ok", "none"))
     \/ /\ ~session.exists
        /\ session' = session
        /\ Move(r, Finish(req[r], "error", "persistence"))
  /\ UNCHANGED <<resume, messages, evaluation, updates, aside>>

\* -------------------------------------------------- generate_evaluation
\* len(messages) < 2 is refused
EvaluationMinMessages == 2

\* get_by_id and the two checks: existence and ownership
generate_evaluation_validate(r) ==
  /\ Free(r)
  /\ \E caller \in {"owner", "other"} :
       \/ /\ ~session.exists
          /\ Move(r, Finish(Start("evaluation"), "NotFound", "session"))
       \/ /\ session.exists /\ caller # "owner"
          /\ Move(r, Finish(Start("evaluation"), "Forbidden", "owner"))
       \/ /\ session.exists /\ caller = "owner"
          /\ Move(r, [Start("evaluation") EXCEPT
                        !.pc = "evaluation_check", !.sess = LocalCopy(session, {"status"})])
  /\ UNCHANGED <<session, resume, messages, evaluation, updates, aside>>

\* InterviewEvaluationService.get_by_session_id: an existing report is a 400;
\* list_by_session: too short a conversation is a 400
generate_evaluation_check(r) ==
  /\ At(r, "evaluation_check")
  /\ \/ /\ evaluation
        /\ Move(r, Finish(req[r], "BadRequest", "exists"))
     \/ /\ ~evaluation /\ Len(messages) < EvaluationMinMessages
        /\ Move(r, Finish(req[r], "BadRequest", "too_few"))
     \/ /\ ~evaluation /\ Len(messages) >= EvaluationMinMessages
        /\ Move(r, [req[r] EXCEPT !.pc = "evaluation_create"])
  /\ UNCHANGED <<session, resume, messages, evaluation, updates, aside>>

\* The try block up to the report: get_client, chat_complete, the parse of the
\* reply, and InterviewEvaluationService.create (INSERT and COMMIT; session_id
\* is unique and a foreign key).  Then the check of the held status.
generate_evaluation_create(r) ==
  /\ At(r, "evaluation_create")
  /\ \/ /\ evaluation' = evaluation
        /\ Move(r, Finish(req[r], "error", "provider"))
     \/ /\ session.exists /\ ~evaluation
        /\ evaluation' = TRUE
        /\ \/ /\ req[r].sess.status = "ongoing"
              /\ Move(r, [req[r] EXCEPT !.pc = "evaluation_complete"])
           \/ /\ req[r].sess.status # "ongoing"
              /\ Move(r, Finish(req[r], "ok", "none"))
     \/ /\ ~session.exists \/ evaluation
        /\ evaluation' = evaluation
        /\ Move(r, Finish(req[r], "error", "persistence"))
  /\ clients' = get_client(clients, SessionModelConfig.base_url, SessionModelConfig.api_key)
  /\ UNCHANGED <<session, resume, messages, updates, beside>>

\* session.status = "completed"; session.end_time = utcnow(); COMMIT
generate_evaluation_complete(r) ==
  /\ At(r, "evaluation_complete")
  /\ \/ /\ session.exists
        /\ session' = InterviewSessionService_close(session, req[r].sess, "completed")
        /\ Move(r, Finish(req[r], "ok", "none"))
     \/ /\ ~session.exists
        /\ session' = session
        /\ Move(r, Finish(req[r], "error", "persistence"))
  /\ UNCHANGED <<resume, messages, evaluation, updates, aside>>

\* ------------------------------------------------------ the environment
\* ResumeService.delete_resume: DELETE of the resumes row.  Under the migrated
\* schema the foreign keys cascade to the session, its messages and its
\* evaluation; where foreign keys are not enforced the session stays, linked
\* to no resume.
delete_resume ==
  /\ Running
  /\ resume
  /\ resume' = FALSE
  /\ \/ /\ session' = [session EXCEPT !.exists = FALSE]
        /\ messages' = << >>
        /\ evaluation' = FALSE
     \/ UNCHANGED <<session, messages, evaluation>>
  /\ req' = [q \in Requests |-> Disturbed(req[q])]
  /\ UNCHANGED <<updates, aside>>

\* the response is out: the slot is free again
respond(r) ==
  /\ req[r].pc = "done"
  /\ req' = [req EXCEPT ![r] = Idle]
  /\ UNCHANGED <<session, resume, messages, evaluation, updates, aside>>

\* ------------------------------------------------------- specification
Next ==
  \/ \E r \in Requests :
       \/ turn_validate(r)
       \/ turn_user_message(r)
       \/ turn_load(r)
       \/ send_chat_complete(r)
       \/ send_transition(r)
       \/ generate_stream(r)
       \/ generate_stream_ai_message(r)
       \/ generate_stream_transition(r)
       \/ next_round_validate(r)
       \/ next_round_transition(r)
       \/ update_interview_validate(r)
       \/ update_interview_write(r)
       \/ close_validate(r)
       \/ close_write(r)
       \/ generate_evaluation_validate(r)
       \/ generate_evaluation_check(r)
       \/ generate_evaluation_create(r)
       \/ generate_evaluation_complete(r)
       \/ respond(r)
  \/ delete_resume

Spec == Init /\ [][Next]_vars

\* ------------------------------------ turns one after the other, no cue
\* user turns of a run of SpecCap
MaxCapTurns == 12

\* a reply in which should_transition_to_next_round finds no marker of the round
NoCue(round, text) ==
  \A k \in 1..Len(ROUND_TRANSITION_MARKERS[round]) :
    ~Contains(ROUND_TRANSITION_MARKERS[round][k], text)

\* The whole of send_message (as of send_message_stream, whose re-read finds
\* the same row) when every step succeeds, no other request runs, and the LLM's
\* reply holds no marker of the round: the user message, the list, the reply,
\* the decision, the AI message, the transition if it was decided.
turn_without_cue ==
  /\ AllIdle
  /\ session.exists /\ session.status = "ongoing"
  /\ Len(messages) + 2 <= 2 * MaxCapTurns
  /\ \E ai_response \in AIReplies :
       LET round == session.current_round
           listed == [i \in 1..Len(messages) |->
                        [role |-> messages[i].role, round |-> messages[i].round]]
                     \o <<[role |-> "user", round |-> round]>>
           decision == should_transition_to_next_round(round, listed, ai_response)
       IN  /\ NoCue(round, ai_response)
           /\ messages' = messages \o
                <<[role |-> "user", round |-> round, triggered_transition |-> "none"],
                  AiMessage(round, decision[1], decision[2])>>
           /\ session' = IF decision[1]
                           THEN transition_to_next_round(session, Loaded(session))
                           ELSE session
  /\ clients' = get_client(clients, SessionModelConfig.base_url, SessionModelConfig.api_key)
  /\ UNCHANGED <<resume, evaluation, req, updates, beside>>

\* the whole of next_round when no other request runs
next_round_alone ==
  /\ AllIdle
  /\ session.exists /\ session.status = "ongoing"
  /\ RoundIndex(session.current_round) < Len(INTERVIEW_ROUNDS)
  /\ session' = transition_to_next_round(session, Loaded(session))
  /\ UNCHANGED <<resume, messages, evaluation, req, updates, aside>>

NextCap == turn_without_cue \/ next_round_alone

\* a session that receives successful turns without cue, and manual next-round calls
SpecCap == Init /\ [][NextCap]_vars

\* --------------------------- turns one after the other, some of them failing
\* message rows of a run of SpecRetry
MaxRetryMessages == 8

\* The whole of send_message when no other request runs and chat_complete
\* raises: the user message is stored, the except branch answers 500, no AI
\* message is stored and should_transition_to_next_round is not reached.
turn_provider_error ==
  /\ AllIdle
  /\ session.exists /\ session.status = "ongoing"
  /\ Len(messages) + 1 <= MaxRetryMessages
  /\ messages' = Append(messages,
       [role |-> "user", round |-> session.current_round, triggered_transition |-> "none"])
  /\ clients' = get_client(clients, SessionModelConfig.base_url, SessionModelConfig.api_key)
  /\ UNCHANGED <<session, resume, evaluation, req, updates, beside>>

NextRetry ==
  \/ turn_provider_error
  \/ Len(messages) + 2 <= MaxRetryMessages /\ turn_without_cue
  \/ next_round_alone

\* a session that receives turns one after the other, any of which may fail at
\* the LLM and be sent again, and manual next-round calls
SpecRetry == Init /\ [][NextRetry]_vars

\* --------------------------------------- should_transition_to_next_round
\* user replies of the round under test in a drawn history
MaxFnReplies == 10
\* exchanges of an earlier round in a drawn history
MaxFnEarlier == 1

\* n exchanges of a round: a user message and the AI's reply, n times
Exchange(round, n) ==
  [i \in 1..(2 * n) |-> [role |-> IF i % 2 = 1 THEN "user" ELSE "ai", round |-> round]]

\* the message lists the function is applied to
FnHistories ==
  {Exchange(earlier, m) \o Exchange(round, n) :
     earlier \in Rounds, round \in Rounds, m \in 0..MaxFnEarlier, n \in 0..MaxFnReplies}

\* the calls the function is applied to; an absent reply (None) and an empty
\* one ("") are both falsy for `if ai_response`, and both are << >> here
FnCalls ==
  [current_round : Rounds, msgs : FnHistories, ai_response : AIReplies, result : {<< >>},
   progress : {<< >>}, returned : {<< >>}]

InitFn ==
  /\ session = [exists |-> TRUE, status |-> "ongoing", current_round |-> "opening",
                end_time |-> FALSE]
  /\ resume = TRUE
  /\ messages = << >>
  /\ evaluation = FALSE
  /\ req = [r \in Requests |-> Idle]
  /\ updates = 0
  /\ limit = MaxMessages
  /\ call \in FnCalls \cup {NoCall}
  /\ ai_configs = << >>
  /\ sessions = << >>
  /\ clients = {}
  /\ llm = NoLlm

\* the function is applied to the drawn arguments
decide ==
  /\ call # NoCall
  /\ call.result = << >>
  /\ call' = [call EXCEPT !.result = should_transition_to_next_round(
                                       call.current_round, call.msgs, call.ai_response)]
  /\ UNCHANGED <<session, resume, messages, evaluation, req, updates, limit,
                 ai_configs, sessions, clients, llm>>

\* a run applies the function to drawn arguments, or runs turns and manual
\* next-round calls one after the other
\* get_round_progress with can_transition = user_message_count > min_messages
get_round_progress_strict(current_round, msgs) ==
  LET of_round == {i \in 1..Len(msgs) : msgs[i].round = current_round}
      user_message_count == Cardinality({i \in of_round : msgs[i].role = "user"})
      ai_message_count == Cardinality({i \in of_round : msgs[i].role = "ai"})
      min_messages == ROUND_MESSAGE_LIMITS[current_round][1]
      max_messages == ROUND_MESSAGE_LIMITS[current_round][2]
      percent == IF max_messages > 0 THEN (user_message_count * 100) \div max_messages
                 ELSE IF ai_message_count > 0 THEN 100 ELSE 0
  IN  [current_round |-> current_round,
       round_index |-> RoundIndex(current_round),
       total_rounds |-> Len(INTERVIEW_ROUNDS),
       user_messages |-> user_message_count,
       ai_messages |-> ai_message_count,
       min_messages |-> min_messages,
       max_messages |-> max_messages,
       progress |-> IF percent > 100 THEN 100 ELSE percent,
       can_transition |-> user_message_count > min_messages]

\* InterviewFlowService.get_round_progress(session, messages): the messages of
\* the round, the user and AI messages among them, the limits of the round,
\* the progress in percent and can_transition
get_round_progress(current_round, msgs) ==
  LET of_round == {i \in 1..Len(msgs) : msgs[i].round = current_round}
      user_message_count == Cardinality({i \in of_round : msgs[i].role = "user"})
      ai_message_count == Cardinality({i \in of_round : msgs[i].role = "ai"})
      min_messages == ROUND_MESSAGE_LIMITS[current_round][1]
      max_messages == ROUND_MESSAGE_LIMITS[current_round][2]
      percent == IF max_messages > 0 THEN (user_message_count * 100) \div max_messages
                 ELSE IF ai_message_count > 0 THEN 100 ELSE 0
  IN  [current_round |-> current_round,
       round_index |-> RoundIndex(current_round),
       total_rounds |-> Len(INTERVIEW_ROUNDS),
       user_messages |-> user_message_count,
       ai_messages |-> ai_message_count,
       min_messages |-> min_messages,
       max_messages |-> max_messages,
       progress |-> IF percent > 100 THEN 100 ELSE percent,
       can_transition |-> user_message_count >= min_messages]

\* the progress of the round is computed for the drawn session and messages
report ==
  /\ call # NoCall
  /\ call.progress = << >>
  /\ call' = [call EXCEPT !.progress = get_round_progress(call.current_round, call.msgs)]
  /\ UNCHANGED <<session, resume, messages, evaluation, req, updates, limit,
                 ai_configs, sessions, clients, llm>>

\* transition_to_next_round(db, session) is called on a session just loaded,
\* in the drawn round and in any status: the row given, the row after the call
transit ==
  /\ call # NoCall
  /\ call.returned = << >>
  /\ \E status \in Statuses :
       LET row == [exists |-> TRUE, status |-> status,
                   current_round |-> call.current_round, end_time |-> status # "ongoing"]
       IN  call' = [call EXCEPT !.returned =
                      [given |-> row, got |-> transition_to_next_round(row, Loaded(row))]]
  /\ UNCHANGED <<session, resume, messages, evaluation, req, updates, limit,
                 ai_configs, sessions, clients, llm>>

NextFn ==
  \/ decide
  \/ report
  \/ transit
  \/ call = NoCall /\ turn_without_cue
  \/ call = NoCall /\ next_round_alone

SpecFn == InitFn /\ [][NextFn]_vars

\* ------------------------------------------- two turns on one session
\* message rows of a run of SpecRace: two turns
MaxRaceMessages == 4

InitRace ==
  /\ session = [exists |-> TRUE, status |-> "ongoing", current_round |-> "opening",
                end_time |-> FALSE]
  /\ resume = TRUE
  /\ messages = << >>
  /\ evaluation = FALSE
  /\ req = [r \in Requests |-> Idle]
  /\ updates = 0
  /\ limit = MaxRaceMessages
  /\ call = NoCall
  /\ ai_configs = << >>
  /\ sessions = << >>
  /\ clients = {}
  /\ llm = NoLlm

NextRace ==
  \E r \in Requests :
    \/ turn_validate(r)
    \/ turn_user_message(r)
    \/ turn_load(r)
    \/ send_chat_complete(r)
    \/ send_transition(r)
    \/ generate_stream(r)
    \/ generate_stream_ai_message(r)
    \/ generate_stream_transition(r)
    \/ respond(r)

\* a session that receives turns only, two of them at most, in any interleaving
SpecRace == InitRace /\ [][NextRace]_vars

\* the steps of a request that has passed its checks: the handler is a
\* coroutine of the event loop and runs on to its response
Proceed ==
  \E r \in Requests :
    \/ turn_user_message(r)
    \/ turn_load(r)
    \/ send_chat_complete(r)
    \/ send_transition(r)
    \/ generate_stream(r)
    \/ generate_stream_ai_message(r)
    \/ generate_stream_transition(r)
    \/ respond(r)

\* SpecRace in which every request that was started is run to its response
SpecRaceFair == InitRace /\ [][NextRace]_vars /\ WF_vars(Proceed)

\* ------------------------------------------------- AIClientFactory
\* AIClientFactory.get_client(base_url, api_key), called by any handler of any
\* session of the process: the arguments given, the client it returns.  The
\* base URLs are as the validator of AIConfigCreate leaves them (no final "/").
get_client_call ==
  /\ \E base_url \in {UrlOne, UrlTwo}, api_key \in {KeyProjA, KeyProjB, KeyLive} :
       /\ clients' = get_client(clients, base_url, api_key)
       /\ call' = [NoCall EXCEPT !.returned =
                     [given |-> [base_url |-> base_url, api_key |-> api_key],
                      got |-> ClientOf(clients, base_url, api_key)]]
  /\ UNCHANGED <<session, resume, messages, evaluation, req, updates, limit,
                 ai_configs, sessions, llm>>

\* the client factory of a process under any sequence of get_client calls
SpecClient == Init /\ [][get_client_call]_vars

\* ------------------------------- AI configurations and session creation
\* ai_configs rows a run may create
MaxConfigs == 2

\* interview_sessions rows a run may create
MaxSessions == 2

\* the id of the resumes row that `resume` stands for
ResumeId == 1

\* a resume_id that no resumes row has
MissingResumeId == 99999

\* the marker of AIConfigService.update: keep the saved key
USE_SAVED_KEY == <<"__USE_SAVED_KEY__">>

\* config_update.model_dump(exclude_unset=True)
ConfigUpdates ==
  {[api_key |-> KeyProjB],
   [api_key |-> USE_SAVED_KEY, chat_model |-> "other"],
   [base_url |-> UrlTwo, temperature |-> 3, max_tokens |-> 1024]}

\* session_data.ai_model_config: absent, or a dict of overrides
SessionOverrides == {<< >>, [chat_model |-> "other"]}

\* the rows of the user that exist
Existing(configs) == {i \in 1..Len(configs) : configs[i].exists}

\* the rows that get_by_user_id selects: is_active == True
Active(configs) == {i \in Existing(configs) : configs[i].is_active}

\* select(Resume) by id
ResumeExists(resume_id) == resume_id = ResumeId /\ resume

\* AIConfigService.create: the first row of the user is the active one
create_ai_config ==
  /\ Len(ai_configs) < MaxConfigs
  /\ \E config_data \in ConfigData :
       ai_configs' = Append(ai_configs,
         config_data @@ [is_active |-> Existing(ai_configs) = {}, exists |-> TRUE])
  /\ UNCHANGED <<session, resume, messages, evaluation, req, updates, limit, call,
                 sessions, clients, llm>>

\* AIConfigService.update: setattr of every field sent, the api_key left as it
\* is when the marker is sent.  A missing row is a 404 and nothing is written.
AIConfigService_update(config, update_data) ==
  [f \in DOMAIN config |->
     IF f \in DOMAIN update_data /\ ~(f = "api_key" /\ update_data[f] = USE_SAVED_KEY)
       THEN update_data[f] ELSE config[f]]

update_ai_config ==
  /\ \E config_id \in Existing(ai_configs), config_update \in ConfigUpdates :
       ai_configs' = [ai_configs EXCEPT
                        ![config_id] = AIConfigService_update(@, config_update)]
  /\ UNCHANGED <<session, resume, messages, evaluation, req, updates, limit, call,
                 sessions, clients, llm>>

\* AIConfigService.delete: the row is deleted; if it was the active one, the
\* first of the rows that remain (a select without ORDER BY) becomes active
delete_ai_config ==
  /\ \E config_id \in Existing(ai_configs) :
       LET was_active == ai_configs[config_id].is_active
           deleted == [ai_configs EXCEPT ![config_id].exists = FALSE,
                                         ![config_id].is_active = FALSE]
       IN  \/ /\ was_active /\ Existing(deleted) # {}
              /\ \E first \in Existing(deleted) :
                   ai_configs' = [deleted EXCEPT ![first].is_active = TRUE]
           \/ /\ ~was_active \/ Existing(deleted) = {}
              /\ ai_configs' = deleted
  /\ UNCHANGED <<session, resume, messages, evaluation, req, updates, limit, call,
                 sessions, clients, llm>>

\* AIConfigService.set_active: every active row is made inactive, then the
\* target is made active; without the target the first half is committed
activate_ai_config ==
  /\ \E config_id \in 1..MaxConfigs :
       ai_configs' = [i \in 1..Len(ai_configs) |->
                        [ai_configs[i] EXCEPT
                           !.is_active = i = config_id /\ ai_configs[i].exists]]
  /\ UNCHANGED <<session, resume, messages, evaluation, req, updates, limit, call,
                 sessions, clients, llm>>

\* model_config in InterviewSessionService.create: the fields of the active
\* row, then model_config.update(session_data.ai_model_config)
Snapshot(ai_config, overrides) ==
  [f \in {"base_url", "api_key", "chat_model", "temperature", "max_tokens"} |->
     IF f \in DOMAIN overrides THEN overrides[f] ELSE ai_config[f]]

\* create_interview: 400 without an active row of the user; else
\* InterviewSessionService.create: INSERT and COMMIT.  The handler does not
\* look the resume up: with a resume_id that no row has, the INSERT fails where
\* the foreign key is enforced (a 500, no row) and succeeds where it is not.
create_interview ==
  /\ Len(sessions) < MaxSessions
  /\ Cardinality(Active(ai_configs)) = 1
  /\ \E resume_id \in {ResumeId, MissingResumeId}, overrides \in SessionOverrides :
       LET ai_config == ai_configs[CHOOSE i \in Active(ai_configs) : TRUE]
           model_config == Snapshot(ai_config, overrides)
           row == [resume_id |-> resume_id, model_config |-> model_config,
                   at_creation |-> model_config, status |-> "ongoing",
                   current_round |-> "opening", messages |-> << >>]
       IN  \/ /\ ResumeExists(resume_id)
              /\ sessions' = Append(sessions, row)
           \/ /\ ~ResumeExists(resume_id)
              /\ sessions' = Append(sessions, row)
           \/ /\ ~ResumeExists(resume_id)
              /\ sessions' = sessions
  /\ UNCHANGED <<session, resume, messages, evaluation, req, updates, limit, call,
                 ai_configs, clients, llm>>

\* The whole of send_message on a created session when no other request runs:
\* the status check, the user message, the select of the resume (404 when no
\* row has the id), get_client and chat_complete with the fields of
\* session.model_config, then the decision, the AI message and the transition.
send_message_alone ==
  /\ \E s \in 1..Len(sessions) :
       LET row == sessions[s]
           stored == row.model_config
           user == [role |-> "user", round |-> row.current_round]
           listed == row.messages \o <<user>>
           client == ClientOf(clients, stored.base_url, stored.api_key)
       IN  /\ row.status = "ongoing"
           /\ Len(row.messages) + 2 <= limit
           /\ \/ /\ ~ResumeExists(row.resume_id)
                 /\ sessions' = [sessions EXCEPT ![s].messages = listed]
                 /\ UNCHANGED <<clients, llm>>
              \/ /\ ResumeExists(row.resume_id)
                 /\ clients' = get_client(clients, stored.base_url, stored.api_key)
                 /\ llm' = [session |-> s, base_url |-> client.base_url,
                            api_key |-> client.api_key,
                            chat_model |-> stored.chat_model,
                            temperature |-> stored.temperature,
                            max_tokens |-> stored.max_tokens]
                 /\ \/ sessions' = [sessions EXCEPT ![s].messages = listed]
                    \/ \E ai_response \in AIReplies :
                         LET decision == should_transition_to_next_round(
                                           row.current_round, listed, ai_response)
                         IN  sessions' = [sessions EXCEPT
                               ![s].messages = listed \o
                                  <<[role |-> "ai", round |-> row.current_round]>>,
                               ![s].current_round =
                                  IF decision[1] THEN NextRoundOf(@) ELSE @]
  /\ UNCHANGED <<session, resume, messages, evaluation, req, updates, limit, call,
                 ai_configs>>

NextConfig ==
  \/ create_ai_config
  \/ update_ai_config
  \/ delete_ai_config
  \/ activate_ai_config
  \/ create_interview
  \/ send_message_alone

\* a user who edits AI configurations, creates sessions and sends turns
SpecConfig == Init /\ [][NextConfig]_vars

\* --------------------------------------------------------------- claims
\* the response of request r is out
Done(r) == req[r].pc = "done"

\* C1: current_round is always one of the five rounds, and each successive
\* value has an index in the sequence at least that of the previous one.
C1_RoundNeverMovesBackward ==
  [][/\ session'.current_round \in Rounds
     /\ RoundIndex(session'.current_round) >= RoundIndex(session.current_round)]_vars

\* C2: once the status is completed or aborted, no step changes current_round.
C2_RoundFrozenOnceClosed ==
  [][session.status # "ongoing" => session'.current_round = session.current_round]_vars

\* C3: once the status is completed or aborted, no step changes the status.
C3_StatusTerminal ==
  [][session.status # "ongoing" => session'.status = session.status]_vars

\* C4: in every reachable state end_time is set if and only if the status is
\* not ongoing.
C4_EndTimeIffClosed ==
  session.end_time <=> session.status # "ongoing"

\* one start event, then chunk events, then exactly one terminal event
WellFormedStream(events) ==
  /\ Len(events) >= 2
  /\ events[1] = "start"
  /\ \A i \in 2..(Len(events) - 1) : events[i] = "chunk"
  /\ events[Len(events)] \in {"end", "error"}

\* the turn passed request validation and its generator ran to its end
StreamRan(r) ==
  /\ Done(r) /\ req[r].kind = "stream"
  /\ req[r].outcome \in {"ok", "error"} /\ req[r].cause # "user_message"

\* C5: every streaming turn that passed request validation emits one start
\* event first, then zero or more chunk events, then exactly one terminal
\* event (end or error), whatever failed, the LLM client included.
C5_StreamEventSequence ==
  \A r \in Requests : StreamRan(r) => WellFormedStream(req[r].events)

\* a non-streaming turn that ended on a provider error of chat_complete
ProviderErrorTurn(r) == Done(r) /\ req[r].kind = "send" /\ req[r].cause = "provider"

\* C6: a non-streaming turn on an ongoing session whose chat_complete fails
\* with a provider error returns an error to the caller and has appended the
\* user's message and no AI message; with nothing else run in between, the
\* session is still ongoing, in the round it was in, and the user's message is
\* the last of the log.
C6_ProviderErrorKeepsUserMessage ==
  \A r \in Requests :
    ProviderErrorTurn(r) =>
      /\ req[r].outcome = "error"
      /\ req[r].appended = <<"user">>
      /\ req[r].alone =>
           /\ session.exists
           /\ session.status = "ongoing"
           /\ session.current_round = req[r].sess.current_round
           /\ messages # << >>
           /\ messages[Len(messages)] =
                [role |-> "user", round |-> req[r].sess.current_round,
                 triggered_transition |-> "none"]

\* C6, its case: a provider error in a non-streaming turn run on its own
C6_Witness == \E r \in Requests : ProviderErrorTurn(r) /\ req[r].alone /\ Len(messages) = 1

\* C7: a streaming turn that ends with an error event, with nothing else run
\* in between, leaves the session ongoing and in the round it had when the
\* turn started, and the user's message of the turn in the log.
C7_StreamErrorLeavesSessionUnchanged ==
  \A r \in Requests :
    (StreamRan(r) /\ req[r].events[Len(req[r].events)] = "error" /\ req[r].alone) =>
      /\ session.exists
      /\ session.status = "ongoing"
      /\ session.current_round = req[r].sess.current_round
      /\ \E i \in 1..Len(messages) : messages[i].role = "user"

\* C8: a turn request rejected with NotFound, Forbidden or InvalidState has
\* appended nothing to the message log.
C8_RejectionBeforeSideEffect ==
  \A r \in Requests :
    (Done(r) /\ IsTurn(req[r]) /\ req[r].outcome \in {"NotFound", "Forbidden", "InvalidState"})
      => req[r].appended = << >>

\* a streaming turn whose fresh persistence context found no session
VanishedStream(r) == Done(r) /\ req[r].kind = "stream" /\ req[r].cause = "vanished"

\* C9: a streaming turn whose session is deleted while the LLM stream is in
\* flight finds no session afterwards, ends its event stream with exactly one
\* error event and no end event, appends no AI message, and ends by that
\* event, not by an exception.
C9_VanishedSessionOneErrorEvent ==
  \A r \in Requests :
    VanishedStream(r) =>
      /\ ~session.exists
      /\ req[r].outcome = "error"
      /\ WellFormedStream(req[r].events)
      /\ Cardinality({i \in 1..Len(req[r].events) : req[r].events[i] = "error"}) = 1
      /\ \A i \in 1..Len(req[r].events) : req[r].events[i] # "end"
      /\ req[r].appended = <<"user">>
      /\ \A i \in 1..Len(messages) : messages[i].role # "ai"

\* C9, its case: the session vanished after chunks had been forwarded
C9_Witness == \E r \in Requests : VanishedStream(r) /\ Len(req[r].events) = MaxChunks + 2

\* C10: no message is appended to the log of a session whose status is not
\* ongoing at the moment of the append.
C10_NoAppendOnceClosed ==
  [][Len(messages') > Len(messages) => session.status = "ongoing"]_vars

\* where a handler stands when its next step is transition_to_next_round
TransitionPcs == {"transition", "stream_transition", "next_round"}

\* the round of the session object the handler passes to transition_to_next_round
HeldRound(x) == IF x.pc = "stream_transition" THEN x.fresh_round ELSE x.sess.current_round

\* request r takes the step that ends it
Ends(r) == req[r].pc # "done" /\ req'[r].pc = "done"

LongestCap ==
  CHOOSE m \in {ROUND_MESSAGE_LIMITS[r][2] : r \in Rounds} :
    \A r \in Rounds : ROUND_MESSAGE_LIMITS[r][2] <= m

\* the user turns a round may last: its max, and for a round whose max is 0
\* as many as the longest round
PhaseCap(round) ==
  IF ROUND_MESSAGE_LIMITS[round][2] > 0 THEN ROUND_MESSAGE_LIMITS[round][2] ELSE LongestCap

\* C12: while the LLM emits no cue and every turn succeeds, a session in a
\* round other than closing has had fewer user turns in that round than the
\* round's cap: with the cap-th turn the session has advanced.
C12_HardCapBoundsEveryPhase ==
  session.current_round # "closing" =>
    UserMessageCount(messages, session.current_round) < PhaseCap(session.current_round)

\* C12, amended: while the LLM emits no cue and every turn succeeds, a session
\* in a round whose max is greater than 0 (self_intro, qa, reverse_qa) has had
\* fewer user turns in that round than the max: with the max-th turn it has
\* advanced.  (In opening, whose max is 0, only a cue or a manual next-round
\* advances the session.)
C12_HardCapBoundsCappedPhases ==
  (session.current_round # "closing" /\ ROUND_MESSAGE_LIMITS[session.current_round][2] > 0) =>
    UserMessageCount(messages, session.current_round)
      < ROUND_MESSAGE_LIMITS[session.current_round][2]

\* C12, its case: the tenth user turn of qa has moved the session to reverse_qa
C12_Witness ==
  /\ session.current_round = "reverse_qa"
  /\ UserMessageCount(messages, "qa") = ROUND_MESSAGE_LIMITS["qa"][2]
  /\ messages[Len(messages)].triggered_transition = "reverse_qa"

\* the function has been applied to the drawn arguments
Decided == call # NoCall /\ call.result # << >>

\* the reply of the call holds a marker of the round of the call
CallHasCue == call.current_round # "closing" /\ ~NoCue(call.current_round, call.ai_response)

\* the user replies of the round of the call have reached a max greater than 0
CallAtCap ==
  /\ call.current_round # "closing"
  /\ ROUND_MESSAGE_LIMITS[call.current_round][2] > 0
  /\ UserMessageCount(call.msgs, call.current_round) >= ROUND_MESSAGE_LIMITS[call.current_round][2]

\* C13: in a round other than closing whose max is greater than 0,
\* should_transition returns (true, next round) once the user messages tagged
\* with the round have reached the max, whatever the reply, absent or not.
C13_CapForcesTransition ==
  (Decided /\ CallAtCap) => call.result = <<TRUE, NextRoundOf(call.current_round)>>

\* C13, its case: qa, ten user messages tagged qa, a reply without cue
C13_Witness ==
  /\ Decided /\ call.current_round = "qa" /\ ~CallHasCue
  /\ UserMessageCount(call.msgs, "qa") = 10
  /\ call.result = <<TRUE, "reverse_qa">>

\* C14: in a round other than closing, should_transition returns (true, next
\* round) whenever the reply contains one of the round's cue phrases, whatever
\* the number of user messages tagged with the round.
C14_CueForcesTransition ==
  (Decided /\ CallHasCue) => call.result = <<TRUE, NextRoundOf(call.current_round)>>

\* C14, its case: qa, a cue, fewer user messages than the min of qa
C14_Witness ==
  /\ Decided /\ call.current_round = "qa" /\ call.ai_response = TextQaCue
  /\ UserMessageCount(call.msgs, "qa") < ROUND_MESSAGE_LIMITS["qa"][1]
  /\ call.result = <<TRUE, "reverse_qa">>

C16_MinIsNoTrigger ==
  Decided =>
    /\ call.result[1] => (CallHasCue \/ CallAtCap)
    /\ ~(CallHasCue \/ CallAtCap) => call.result = <<FALSE, call.current_round>>

\* C16, its case: qa, no cue, at least min and fewer than max user replies
C16_Witness ==
  /\ Decided /\ call.current_round = "qa" /\ ~CallHasCue
  /\ UserMessageCount(call.msgs, "qa") >= ROUND_MESSAGE_LIMITS["qa"][1]
  /\ UserMessageCount(call.msgs, "qa") < ROUND_MESSAGE_LIMITS["qa"][2]
  /\ call.result = <<FALSE, "qa">>

\* C17: the model configuration stored in a session stays what it was at
\* creation through every create, update, delete and activate of the user's AI
\* configurations, and the LLM call of every turn goes out with the stored
\* base URL, API key, model, temperature and max tokens.
C17_SnapshotFrozenAndUsed ==
  /\ \A s \in 1..Len(sessions) : sessions[s].model_config = sessions[s].at_creation
  /\ llm # NoLlm =>
       /\ llm.base_url = sessions[llm.session].model_config.base_url
       /\ llm.api_key = sessions[llm.session].model_config.api_key
       /\ llm.chat_model = sessions[llm.session].model_config.chat_model
       /\ llm.temperature = sessions[llm.session].model_config.temperature
       /\ llm.max_tokens = sessions[llm.session].model_config.max_tokens

\* C18: a session row is stored only by a create request made while the user
\* has an active AI configuration and the resume of the request exists.
C18_CreatedOnlyWithConfigAndResume ==
  [][Len(sessions') > Len(sessions) =>
       /\ Active(ai_configs) # {}
       /\ ResumeExists(sessions'[Len(sessions')].resume_id)]_vars

\* C19: the round of every message is the current_round of the session at the
\* step that appends the message, for user and AI messages, whatever other
\* request changed current_round since the turn started.
C19_TagIsCurrentRoundAtAppend ==
  [][Len(messages') > Len(messages) =>
       messages'[Len(messages')].round = session.current_round]_vars

\* the AI messages tagged `round` whose turn decided a transition
Deciders(round) ==
  {i \in 1..Len(messages) :
     /\ messages[i].role = "ai" /\ messages[i].round = round
     /\ messages[i].triggered_transition # "none"}

\* C20: two turns that read the same current_round can both decide a
\* transition; the session is then at most two rounds past the round they
\* read, and it is two rounds past it only when one of the two decided on the
\* row it read again after the other's transition (a double advance).
C20_DoubleAdvance ==
  \A round \in Rounds :
    Cardinality(Deciders(round)) >= 2 =>
      /\ RoundIndex(session.current_round) <= RoundIndex(round) + 2
      /\ RoundIndex(session.current_round) = RoundIndex(round) + 2 =>
           \E i \in Deciders(round) :
             messages[i].triggered_transition = session.current_round

\* C20, its case: two turns read opening, both decided a transition, and the
\* session is in qa
C20_Witness ==
  /\ Cardinality(Deciders("opening")) = 2
  /\ \A i \in 1..Len(messages) : messages[i].round = "opening"
  /\ session.current_round = "qa"

\* C21: in every state, an evaluation row of the session exists only if the
\* status of the session is completed.
C21_EvaluationOnlyWhenCompleted ==
  evaluation => session.status = "completed"

\* C22: for each round other than closing, a reply that consists of the
\* sentence the round's instruction tells the AI to say makes should_transition
\* on that round return (true, next round).
C22_InstructionCueRecognised ==
  (Decided /\ call.current_round # "closing"
           /\ call.ai_response = RoundInstructionCue[call.current_round])
    => call.result = <<TRUE, NextRoundOf(call.current_round)>>

\* C22, its case: self_intro, no message yet, the sentence of the self_intro instruction
C22_Witness ==
  /\ Decided /\ call.current_round = "self_intro" /\ call.msgs = << >>
  /\ call.ai_response = RoundInstructionCue["self_intro"]
  /\ call.result = <<TRUE, "qa">>

\* the progress of the drawn call has been reported
Reported == call # NoCall /\ call.progress # << >>

Returned == call # NoCall /\ call.returned # << >>

\* C24: transition_to_next_round on a session in closing returns the session
\* with every field as it was, and a further call on what it returned does
\* the same.
C24_TransitionAtClosingIsNoOp ==
  (Returned /\ call.current_round = "closing") =>
    /\ call.returned.got = call.returned.given
    /\ transition_to_next_round(call.returned.got, Loaded(call.returned.got))
         = call.returned.given

\* C24, its case: the call was made on a completed session in closing
C24_Witness ==
  /\ Returned /\ call.current_round = "closing"
  /\ call.returned.given.status = "completed"
  /\ call.returned.got.current_round = "closing"

\* a turn decided the transition out of opening: its AI message records
\* triggered_transition = self_intro
LeftOpeningByTurn ==
  \E i \in 1..Len(messages) :
    messages[i].role = "ai" /\ messages[i].triggered_transition = "self_intro"

C26_UserMessagesWithinMax ==
  \A round \in Rounds :
    ROUND_MESSAGE_LIMITS[round][2] > 0 =>
      UserMessageCount(messages, round) <= ROUND_MESSAGE_LIMITS[round][2]

\* no turn is between its checks and its response
NoTurnRunning == \A r \in Requests : IsTurn(req[r]) => req[r].pc \in {"idle", "done"}

\* C27: once the turn that stored it has finished, with a response or with an
\* error, an AI message whose meta_info records triggered_transition = X goes
\* with a session whose current_round is X or a later round.
C27_TriggeredTransitionWasMade ==
  (NoTurnRunning /\ session.exists) =>
    \A i \in 1..Len(messages) :
      messages[i].triggered_transition # "none" =>
        RoundIndex(session.current_round) >= RoundIndex(messages[i].triggered_transition)

\* C28: when chat_stream fails after at least one chunk event, the step that
\* ends the turn stores no AI message and leaves the session as it is: the
\* turn has stored its user message and nothing else.
C28_PartialStreamDiscarded ==
  [][\A r \in Requests :
       (/\ req[r].pc = "generate_stream" /\ req'[r].pc = "done"
        /\ req'[r].cause = "provider" /\ Len(req'[r].events) >= 3) =>
         /\ messages' = messages
         /\ session' = session
         /\ req'[r].appended = <<"user">>]_vars

\* C28, its case: a stream that failed after a chunk; the log holds user
\* messages only and the session is in opening
C28_Witness ==
  /\ \E r \in Requests :
       /\ Done(r) /\ req[r].kind = "stream" /\ req[r].cause = "provider"
       /\ Len(req[r].events) >= 3 /\ req[r].events[2] = "chunk"
  /\ Len(messages) >= 1
  /\ \A i \in 1..Len(messages) : messages[i].role = "user"
  /\ session.current_round = "opening"

\* C29: after any sequence of get_client calls, the client that
\* get_client(base_url, api_key) returns has the base_url and the api_key that
\* were passed in.
C29_ClientHasThePassedKey ==
  (call.current_round = "none" /\ call.returned # << >>) =>
    /\ call.returned.got.base_url = call.returned.given.base_url
    /\ call.returned.got.api_key = call.returned.given.api_key

\* C30: after any sequence of create, update, delete and set_active operations
\* on a user's AI configurations, the user has exactly one active configuration
\* whenever the user has at least one configuration.
C30_ExactlyOneActiveConfig ==
  Existing(ai_configs) # {} => Cardinality(Active(ai_configs)) = 1

====
